---- MODULE Spec2Model ----
(***************************************************************************)
(* A model of eradicate.py: the classifier comment_contains_code, the      *)
(* tokenizer-driven marking pass commented_out_code_line_numbers, the line *)
(* filter filter_commented_out_code, fix_file and the worklist of main.    *)
(*                                                                         *)
(* Text is a sequence of one-character strings, so that stripping,         *)
(* prefix/suffix tests, substring tests and the regular expressions of the *)
(* source are computed on characters.                                      *)
(***************************************************************************)
EXTENDS Integers, Sequences, FiniteSets, TLC

(***************************************************************************)
(* Bounds of the model.                                                    *)
(***************************************************************************)
\* longest source text, in lines
MaxLines == 3
\* nesting depth at which the parse oracle gives up with MemoryError; the
\* interpreter's limit is in the thousands, the model scales it down
CompileDepthLimit == 3

(***************************************************************************)
(* State.  The three parts of the program are exercised separately: a      *)
(* classifier call (c_), a filtering pass (the f_ group) and a run of main *)
(* (the m_ group); the part a specification does not exercise stays idle.  *)
(***************************************************************************)
VARIABLES
    \* comment_contains_code
    c_line, c_text, c_bare, c_pc, c_exc,
    \* commented_out_code_line_numbers and filter_commented_out_code
    src_lines, source, f_pc, lnum, tk, marked_lines, tok_fail, f_exc, index,
    output, pass, first_output,
    \* fix_file and main
    in_place, recursive, fs, pkg_dirs, filenames, m_pc, walk, stdout, stderr,
    written, passed, last

cvars == <<c_line, c_text, c_bare, c_pc, c_exc>>

fvars == <<src_lines, source, f_pc, lnum, tk, marked_lines, tok_fail, f_exc,
           index, output, pass, first_output>>

mvars == <<in_place, recursive, fs, pkg_dirs, filenames, m_pc, walk, stdout,
           stderr, written, passed, last>>

vars == <<cvars, fvars, mvars>>

(***************************************************************************)
(* Characters and string primitives (str.lstrip, str.strip, startswith,    *)
(* endswith, the `in` substring test).                                     *)
(***************************************************************************)
Letters == {"a", "b", "c", "d", "e", "f", "g", "h", "i", "k", "l", "m", "n",
            "o", "p", "r", "s", "t", "u", "x", "y", "z"}
Digits == {"0", "1", "2", "5"}
WordChars == Letters \cup Digits \cup {"_"}
Whitespace == {" ", "\t", "\n", "\r", "\f"}
\* the argument of line.lstrip(' \t\v\n#')
MarkerChars == {" ", "\t", "\n", "#"}

RECURSIVE lstripSet(_, _)
lstripSet(s, cs) ==
    IF s # <<>> /\ Head(s) \in cs THEN lstripSet(Tail(s), cs) ELSE s

RECURSIVE rstripSet(_, _)
rstripSet(s, cs) ==
    IF s # <<>> /\ s[Len(s)] \in cs
    THEN rstripSet(SubSeq(s, 1, Len(s) - 1), cs) ELSE s

lstrip(s) == lstripSet(s, Whitespace)

strip(s) == rstripSet(lstripSet(s, Whitespace), Whitespace)

startswith(s, p) == Len(s) >= Len(p) /\ SubSeq(s, 1, Len(p)) = p

endswith(s, p) ==
    Len(s) >= Len(p) /\ SubSeq(s, Len(s) - Len(p) + 1, Len(s)) = p

Contains(s, p) ==
    \E i \in 1..(Len(s) - Len(p) + 1) : SubSeq(s, i, i + Len(p) - 1) = p

DropFirst(s, n) == SubSeq(s, n + 1, Len(s))

(***************************************************************************)
(* comment_contains_code, its constants.                                   *)
(***************************************************************************)
kw_print == <<"p", "r", "i", "n", "t">>
kw_return == <<"r", "e", "t", "u", "r", "n">>
kw_break == <<"b", "r", "e", "a", "k">>
kw_continue == <<"c", "o", "n", "t", "i", "n", "u", "e">>
kw_import == <<"i", "m", "p", "o", "r", "t">>
kw_else == <<"e", "l", "s", "e">>
kw_try == <<"t", "r", "y">>
kw_finally == <<"f", "i", "n", "a", "l", "l", "y">>

GateSymbols == {"(", ")", "[", "]", "{", "}", ":", "="}
GateWords == {kw_print, kw_return, kw_break, kw_continue, kw_import}
Endings == {")", "]", "}"}
BlockKeywords == {kw_else, kw_try, kw_finally}

\* line.lstrip().startswith('#')
lstrip_startswith_hash(line) == startswith(lstrip(line), <<"#">>)

\* line = line.lstrip(); line = line.lstrip(' \t\v\n#').strip()
BareText(line) == strip(lstripSet(lstrip(line), MarkerChars))

\* the for/else over the symbols and words: true when one of them occurs
PossiblyCode(text) ==
    \/ \E i \in 1..Len(text) : text[i] \in GateSymbols
    \/ \E w \in GateWords : Contains(text, w)

\* for ending in ')]}': line.endswith(ending + ':')
MultiLineEnding(text) == \E e \in Endings : endswith(text, <<e, ":">>)

\* re.match(r'^\s*' + symbol + r'\s*:\s*$', line)
MatchesBlock_open(text, symbol) ==
    LET a == lstrip(text) IN
       /\ startswith(a, symbol)
       /\ LET b == lstrip(DropFirst(a, Len(symbol))) IN
             b # <<>> /\ Head(b) = ":"

MatchesBlock(text, symbol) ==
    LET a == lstrip(text) IN
       /\ startswith(a, symbol)
       /\ LET b == lstrip(DropFirst(a, Len(symbol))) IN
             b # <<>> /\ Head(b) = ":" /\ lstrip(Tail(b)) = <<>>

KeywordBlock(text) == \E symbol \in BlockKeywords : MatchesBlock(text, symbol)

\* re.sub('^' + remove_beginning + r'\b\s*', '', line)
re_sub_beginning(remove_beginning, text) ==
    IF /\ startswith(text, remove_beginning)
       /\ \/ Len(text) = Len(remove_beginning)
          \/ text[Len(remove_beginning) + 1] \notin WordChars
    THEN lstrip(DropFirst(text, Len(remove_beginning)))
    ELSE text

\* for remove_beginning in ['print', 'return']: line = re.sub(...)
RemoveBeginnings(text) ==
    re_sub_beginning(kw_return, re_sub_beginning(kw_print, text))

(***************************************************************************)
(* The parse oracle compile(line, '<string>', 'exec'), on the fragment of  *)
(* the grammar the model's texts use: an empty program, an expression      *)
(* statement or an assignment NAME = expression, where an expression is    *)
(* built of names, numbers, parentheses, calls and unary and binary minus. *)
(* Everything else is a SyntaxError; a chain of prefix operators deeper    *)
(* than the limit is a MemoryError.                                        *)
(***************************************************************************)
Keywords == {kw_return, kw_break, kw_continue, kw_import, kw_else, kw_try,
             kw_finally, <<"e", "l", "i", "f">>, <<"i", "f">>, <<"i", "n">>,
             <<"i", "s">>, <<"o", "r">>, <<"a", "s">>, <<"n", "o", "t">>,
             <<"f", "o", "r">>, <<"d", "e", "f">>, <<"p", "a", "s", "s">>}

RECURSIVE WordLen(_)
WordLen(s) == IF s # <<>> /\ Head(s) \in WordChars THEN 1 + WordLen(Tail(s)) ELSE 0

RECURSIVE Lex(_)
Lex(s) ==
    IF s = <<>> THEN <<>>
    ELSE IF Head(s) \in Whitespace THEN Lex(Tail(s))
    ELSE IF Head(s) = "#" THEN <<>>
    ELSE IF Head(s) \in WordChars
         THEN <<SubSeq(s, 1, WordLen(s))>> \o Lex(DropFirst(s, WordLen(s)))
    ELSE <<<<Head(s)>>>> \o Lex(Tail(s))

IsNumber(t) == \A i \in 1..Len(t) : t[i] \in Digits
IsName(t) == Head(t) \in (Letters \cup {"_"}) /\ t \notin Keywords
IsTok(toks, i, c) == i <= Len(toks) /\ toks[i] = <<c>>

\* the parsers return the position after what they parsed, 0 on a syntax
\* error and -1 when the nesting exceeds the limit
RECURSIVE ParseUnary(_, _, _)
RECURSIVE ParseExpr(_, _, _)
RECURSIVE ParseTrailers(_, _, _)
RECURSIVE ParseMore(_, _, _)
RECURSIVE CloseParen(_, _, _)

\* after a parenthesised expression that ended before position j
CloseParen(toks, j, d) ==
    IF j <= 0 THEN j
    ELSE IF IsTok(toks, j, ")") THEN ParseTrailers(toks, j + 1, d)
    ELSE 0

ParseUnary(toks, i, d) ==
    IF i > Len(toks) THEN 0
    ELSE IF toks[i] = <<"-">>
         THEN IF d + 1 > CompileDepthLimit THEN -1
              ELSE ParseUnary(toks, i + 1, d + 1)
    ELSE IF toks[i] = <<"(">>
         THEN CloseParen(toks, ParseExpr(toks, i + 1, d), d)
    ELSE IF Head(toks[i]) \in WordChars /\ (IsNumber(toks[i]) \/ IsName(toks[i]))
         THEN ParseTrailers(toks, i + 1, d)
    ELSE 0

ParseTrailers(toks, i, d) ==
    IF IsTok(toks, i, "(")
    THEN IF IsTok(toks, i + 1, ")") THEN ParseTrailers(toks, i + 2, d)
         ELSE CloseParen(toks, ParseExpr(toks, i + 1, d), d)
    ELSE i

ParseMore(toks, i, d) ==
    IF i <= 0 THEN i
    ELSE IF IsTok(toks, i, "-") THEN ParseMore(toks, ParseUnary(toks, i + 1, d), d)
    ELSE i

ParseExpr(toks, i, d) == ParseMore(toks, ParseUnary(toks, i, d), d)

\* the outcome for a statement of n tokens whose parse ended at r
ParseOutcome(n, r) ==
    IF r = -1 THEN "MemoryError"
    ELSE IF r = n + 1 THEN "ok"
    ELSE "SyntaxError"

IsAssignment(toks) ==
    /\ Len(toks) >= 2
    /\ Head(toks[1]) \in WordChars
    /\ IsName(toks[1])
    /\ toks[2] = <<"=">>

CompileTokens(toks) ==
    IF toks = <<>> THEN "ok"
    ELSE ParseOutcome(Len(toks),
                      ParseExpr(toks, IF IsAssignment(toks) THEN 3 ELSE 1, 0))

compile(text) == CompileTokens(Lex(text))

\* except (SyntaxError, TypeError, UnicodeDecodeError)
CaughtByClassifier == {"SyntaxError", "TypeError", "UnicodeDecodeError"}

\* the whole function: the verdict, or the exception that leaves it
\* try: compile(...); return True / except (...): return False
TryCompile(outcome) ==
    IF outcome = "ok" THEN [ret |-> TRUE, exc |-> "none"]
    ELSE IF outcome \in CaughtByClassifier THEN [ret |-> FALSE, exc |-> "none"]
    ELSE [ret |-> FALSE, exc |-> outcome]

\* the function from line 22 on, `text` being the bare text
ClassifyBare(text) ==
    IF ~PossiblyCode(text) THEN [ret |-> FALSE, exc |-> "none"]
    ELSE IF MultiLineEnding(text) THEN [ret |-> TRUE, exc |-> "none"]
    ELSE IF KeywordBlock(text) THEN [ret |-> TRUE, exc |-> "none"]
    ELSE TryCompile(compile(RemoveBeginnings(text)))

comment_contains_code(line) ==
    IF ~lstrip_startswith_hash(line) THEN [ret |-> FALSE, exc |-> "none"]
    ELSE ClassifyBare(BareText(line))

(***************************************************************************)
(* The classifier, statement by statement.  c_pc is the line of the source *)
(* the call is at; "returnNN" is the return statement of line NN and       *)
(* "raised" an exception leaving the function.  c_text is the variable     *)
(* `line`, c_bare its value after line 19.                                 *)
(***************************************************************************)
\* a prefix operator chain one deeper than the oracle's limit
DeepBody ==
    <<"x", " ", "=", " ">> \o [i \in 1..(CompileDepthLimit + 1) |-> "-"] \o <<"1">>

Bodies ==
    {<<"x", " ", "=", " ", "1">>,
     <<"5">>,
     <<>>,
     <<"n", "o", "t", "e">>,
     <<"a", " ", "b">>,
     <<"(", "x">>,
     <<"x", "(", ")">>,
     <<"x", " ", "-", " ", "1">>,
     <<"-", "-", "1">>,
     <<"p", "r", "i", "n", "t", " ", "5">>,
     <<"p", "r", "i", "n", "t", "(", "1", ")">>,
     <<"p", "r", "i", "n", "t", "x", " ", "=", " ", "1">>,
     <<"p", "r", "i", "n", "t", " ", "r", "e", "t", "u", "r", "n", " ", "5">>,
     <<"r", "e", "t", "u", "r", "n", " ", "5">>,
     <<"r", "e", "t", "u", "r", "n", " ", "p", "r", "i", "n", "t", " ", "5">>,
     <<"r", "e", "t", "u", "r", "n">>,
     <<"p", "r", "i", "n", "t">>,
     <<"b", "r", "e", "a", "k">>,
     <<"i", "m", "p", "o", "r", "t">>,
     <<"e", "l", "s", "e", ":">>,
     <<"e", "l", "s", "e", " ", ":">>,
     <<"t", "r", "y", ":">>,
     <<"f", "i", "n", "a", "l", "l", "y", ":">>,
     <<"e", "l", "i", "f", ":">>,
     <<"e", "l", "s", "e", ":", " ", "x">>,
     <<"x", " ", "e", "l", "s", "e", ":">>,
     <<"f", "(", "x", ")", ":">>,
     <<"a", " ", "b", ")", ":">>,
     <<"x", " ", "=", " ", "(">>,
     <<"n", "o", "t", "e", ":", " ", "(", "s", "e", "e", " ", "x">>}
Prefixes ==
    {<<>>,
     <<"#">>,
     <<"#", " ">>,
     <<" ", " ", "#", " ">>,
     <<"#", "#">>,
     <<"x", " ", "=", " ", "1", " ", "#", " ">>}
Suffixes ==
    {<<>>,
     <<"\n">>,
     <<" ", "\n">>}

ClassifierInputs ==
    {p \o b \o s : p \in Prefixes, b \in Bodies \cup {DeepBody}, s \in Suffixes}

CInit ==
    /\ c_line \in ClassifierInputs
    /\ c_text = c_line
    /\ c_bare = <<>>
    /\ c_pc = "line15"
    /\ c_exc = "none"

CC_Strip ==
    /\ c_pc = "line15"
    /\ IF ~lstrip_startswith_hash(c_line)
       THEN /\ c_pc' = "return17"
            /\ c_text' = lstrip(c_line)
            /\ UNCHANGED c_bare
       ELSE /\ c_pc' = "line22"
            /\ c_text' = BareText(c_line)
            /\ c_bare' = BareText(c_line)
    /\ UNCHANGED <<c_line, c_exc>>
    /\ UNCHANGED <<fvars, mvars>>

CC_Gate ==
    /\ c_pc = "line22"
    /\ c_pc' = IF PossiblyCode(c_text) THEN "line30" ELSE "return27"
    /\ UNCHANGED <<c_line, c_text, c_bare, c_exc>>
    /\ UNCHANGED <<fvars, mvars>>

CC_Endings ==
    /\ c_pc = "line30"
    /\ c_pc' = IF MultiLineEnding(c_text) THEN "return32" ELSE "line34"
    /\ UNCHANGED <<c_line, c_text, c_bare, c_exc>>
    /\ UNCHANGED <<fvars, mvars>>

CC_Keywords ==
    /\ c_pc = "line34"
    /\ c_pc' = IF KeywordBlock(c_text) THEN "return36" ELSE "line38"
    /\ UNCHANGED <<c_line, c_text, c_bare, c_exc>>
    /\ UNCHANGED <<fvars, mvars>>

CC_Beginnings ==
    /\ c_pc = "line38"
    /\ c_text' = RemoveBeginnings(c_text)
    /\ c_pc' = "line41"
    /\ UNCHANGED <<c_line, c_bare, c_exc>>
    /\ UNCHANGED <<fvars, mvars>>

CC_Compile ==
    /\ c_pc = "line41"
    /\ \E outcome \in {compile(c_text)} :
          IF outcome = "ok"
          THEN c_pc' = "return43" /\ UNCHANGED c_exc
          ELSE IF outcome \in CaughtByClassifier
          THEN c_pc' = "return45" /\ UNCHANGED c_exc
          ELSE c_pc' = "raised" /\ c_exc' = outcome
    /\ UNCHANGED <<c_line, c_text, c_bare>>
    /\ UNCHANGED <<fvars, mvars>>

ReturnsTrue == c_pc \in {"return32", "return36", "return43"}
ReturnsFalse == c_pc \in {"return17", "return27", "return45"}

(***************************************************************************)
(* tokenize.generate_tokens as the source uses it: a fallible iterator     *)
(* over the physical lines that readline returns.  The model keeps what    *)
(* decides where COMMENT tokens are and where the tokenizer raises: the    *)
(* open triple-quoted string, the bracket level and the indentation stack. *)
(***************************************************************************)
\* StringIO(source).readlines(): a line ends after each "\n"
RECURSIVE splitlines(_, _)
splitlines(s, cur) ==
    IF s = <<>> THEN (IF cur = <<>> THEN <<>> ELSE <<cur>>)
    ELSE IF Head(s) = "\n" THEN <<cur>> \o splitlines(Tail(s), <<>>)
    ELSE splitlines(Tail(s), Append(cur, Head(s)))

RECURSIVE readlines_from(_, _)
readlines_from(s, cur) ==
    IF s = <<>> THEN (IF cur = <<>> THEN <<>> ELSE <<cur>>)
    ELSE IF Head(s) = "\n"
         THEN <<Append(cur, "\n")>> \o readlines_from(Tail(s), <<>>)
    ELSE readlines_from(Tail(s), Append(cur, Head(s)))

readlines_nokeepends(s) == splitlines(s, <<>>)

readlines(s) == readlines_from(s, <<>>)

\* ''.join(...)
RECURSIVE join_newlines(_)
join_newlines(ls) ==
    IF ls = <<>> THEN <<>>
    ELSE IF Len(ls) = 1 THEN Head(ls)
    ELSE Head(ls) \o <<"\n">> \o join_newlines(Tail(ls))

RECURSIVE join(_)
join(ls) == IF ls = <<>> THEN <<>> ELSE Head(ls) \o join(Tail(ls))

TripleQuote == <<"'", "'", "'">>

\* least q >= from where p starts in line, 0 when there is none
Least(hits) ==
    IF hits = {} THEN 0 ELSE CHOOSE q \in hits : \A r \in hits : q <= r

FindFrom(line, p, from) ==
    Least({q \in from..(Len(line) - Len(p) + 1) :
              SubSeq(line, q, q + Len(p) - 1) = p})

\* the pseudo-token loop over one line from position pos: the bracket
\* level after it, whether a triple-quoted string stays open, and the
\* 0-based column of the COMMENT token (-1 when the line has none)
RECURSIVE ScanLine(_, _, _)
RECURSIVE ScanString(_, _, _, _, _)

\* a string that opens at pos with a quote of n characters and closes at q
\* (0: it does not close in this line)
ScanString(line, pos, parenlev, n, q) ==
    IF q # 0 THEN ScanLine(line, q + n, parenlev)
    ELSE IF n = 3
    THEN [parenlev |-> parenlev, contstr |-> TRUE, comment |-> -1]
    ELSE ScanLine(line, pos + 1, parenlev)

ScanLine(line, pos, parenlev) ==
    IF pos > Len(line)
    THEN [parenlev |-> parenlev, contstr |-> FALSE, comment |-> -1]
    ELSE IF line[pos] = "#"
    THEN [parenlev |-> parenlev, contstr |-> FALSE, comment |-> pos - 1]
    ELSE IF pos + 2 <= Len(line) /\ SubSeq(line, pos, pos + 2) = TripleQuote
    THEN ScanString(line, pos, parenlev, 3, FindFrom(line, TripleQuote, pos + 3))
    ELSE IF line[pos] = "'"
    THEN ScanString(line, pos, parenlev, 1, FindFrom(line, <<"'">>, pos + 1))
    ELSE IF line[pos] \in {"(", "[", "{"}
    THEN ScanLine(line, pos + 1, parenlev + 1)
    ELSE IF line[pos] \in {")", "]", "}"}
    THEN ScanLine(line, pos + 1, parenlev - 1)
    ELSE ScanLine(line, pos + 1, parenlev)

\* the column of the first character that is not indentation
RECURSIVE Column(_, _, _)
Column(line, pos, col) ==
    IF pos > Len(line) THEN [pos |-> pos, col |-> col]
    ELSE IF line[pos] = " " THEN Column(line, pos + 1, col + 1)
    ELSE IF line[pos] = "\t" THEN Column(line, pos + 1, ((col \div 8) + 1) * 8)
    ELSE IF line[pos] = "\f" THEN Column(line, pos + 1, 0)
    ELSE [pos |-> pos, col |-> col]

Last(s) == s[Len(s)]

InSeq(x, s) == \E i \in 1..Len(s) : s[i] = x

RECURSIVE Dedent(_, _)
Dedent(indents, col) ==
    IF col < Last(indents) THEN Dedent(SubSeq(indents, 1, Len(indents) - 1), col)
    ELSE indents

TokInit == [contstr |-> FALSE, parenlev |-> 0, indents |-> <<0>>]

\* one iteration of the tokenizer's loop over a line: the state after it,
\* the COMMENT token of the line if it has one (its start and the physical
\* line, as token[2] and token[4]) and the exception raised, if any
\* the COMMENT token of a line that has one at the 0-based column col
CommentToken(line, row, col) ==
    IF col < 0 THEN <<>>
    ELSE <<[type |-> "COMMENT", start |-> <<row, col>>, line |-> line]>>

\* the tokenizer after the pseudo-token loop left r, with indentation ind
Scanned(line, row, r, ind) ==
    [st |-> [contstr |-> r.contstr, parenlev |-> r.parenlev, indents |-> ind],
     tokens |-> CommentToken(line, row, r.comment), err |-> "none"]

\* the indentation the stack becomes for a statement at column col
Indent(indents, col) ==
    IF col > Last(indents) THEN Append(indents, col) ELSE Dedent(indents, col)

\* a line inside a triple-quoted string, which closes at q if q # 0
TokString(st, line, row, q) ==
    IF q = 0 THEN [st |-> st, tokens |-> <<>>, err |-> "none"]
    ELSE Scanned(line, row, ScanLine(line, q + 3, st.parenlev), st.indents)

\* a line at bracket level 0, c being where its indentation ends
TokStatement(st, line, row, c) ==
    IF c.pos > Len(line)
    THEN [st |-> st, tokens |-> <<>>, err |-> "none"]
    ELSE IF line[c.pos] \in {"#", "\r", "\n"}
    THEN [st |-> st,
          tokens |-> CommentToken(line, row,
                                  IF line[c.pos] = "#" THEN c.pos - 1 ELSE -1),
          err |-> "none"]
    ELSE IF c.col <= Last(st.indents) /\ ~InSeq(c.col, st.indents)
    THEN [st |-> st, tokens |-> <<>>, err |-> "IndentationError"]
    ELSE Scanned(line, row, ScanLine(line, c.pos, 0), Indent(st.indents, c.col))

TokLine(st, line, row) ==
    IF st.contstr
    THEN TokString(st, line, row, FindFrom(line, TripleQuote, 1))
    ELSE IF st.parenlev = 0
    THEN TokStatement(st, line, row, Column(line, 1, 0))
    ELSE Scanned(line, row, ScanLine(line, 1, st.parenlev), st.indents)

\* readline returned '': the end of the text
TokEOF(st) ==
    IF st.contstr THEN "TokenError"
    ELSE IF st.parenlev # 0 THEN "TokenError"
    ELSE "none"

(***************************************************************************)
(* commented_out_code_line_numbers                                         *)
(***************************************************************************)
\* except (tokenize.TokenError, IndentationError)
CaughtByAdapter_onlyTokenError == {"TokenError"}

CaughtByAdapter == {"TokenError", "IndentationError"}

\* start_row = token[2][0]
start_row_column(token) == token.start[2]

start_row(token) == token.start[1]

\* token_type == tokenize.COMMENT and line.lstrip().startswith('#')
IsCandidate(token) ==
    token.type = "COMMENT" /\ lstrip_startswith_hash(token.line)

\* the body of the for loop for one token: the marked rows after it, or
\* the exception of the classifier, which nothing here catches
\* yield start_row, when the classifier's verdict v is True
YieldIf(token, marked, v) ==
    IF v.exc # "none" THEN [marked |-> marked, exc |-> v.exc]
    ELSE IF v.ret
    THEN [marked |-> Append(marked, start_row(token)), exc |-> "none"]
    ELSE [marked |-> marked, exc |-> "none"]

LoopBody(token, marked) ==
    IF ~IsCandidate(token) THEN [marked |-> marked, exc |-> "none"]
    ELSE YieldIf(token, marked, comment_contains_code(token.line))

RECURSIVE LoopBodies(_, _)
RECURSIVE LoopRest(_, _)

LoopRest(tokens, r) ==
    IF r.exc # "none" THEN r ELSE LoopBodies(tokens, r.marked)

LoopBodies(tokens, marked) ==
    IF tokens = <<>> THEN [marked |-> marked, exc |-> "none"]
    ELSE LoopRest(Tail(tokens), LoopBody(Head(tokens), marked))

\* the generator run to its end, as list(...) consumes it: the rows
\* yielded and the exception that escapes it ("none" when it returns)
\* the generator ends: by an exception the except clause catches or by
\* the end of the text ("none"), or by an exception that escapes it
Ended(marked, err) ==
    [marked |-> marked,
     exc |-> IF err \in CaughtByAdapter \cup {"none"} THEN "none" ELSE err]

RECURSIVE MarkFrom(_, _, _, _)
RECURSIVE MarkLine(_, _, _, _)
RECURSIVE MarkNext(_, _, _, _)

MarkNext(lines, i, st, r) ==
    IF r.exc # "none" THEN r ELSE MarkFrom(lines, i + 1, st, r.marked)

MarkLine(lines, i, marked, t) ==
    IF t.err # "none" THEN Ended(marked, t.err)
    ELSE MarkNext(lines, i, t.st, LoopBodies(t.tokens, marked))

MarkFrom(lines, i, st, marked) ==
    IF i > Len(lines) THEN Ended(marked, TokEOF(st))
    ELSE MarkLine(lines, i, marked, TokLine(st, lines[i], i))

commented_out_code_line_numbers(text) ==
    MarkFrom(readlines(text), 1, TokInit, <<>>)

(***************************************************************************)
(* filter_commented_out_code                                               *)
(***************************************************************************)
\* enumerate(sio.readlines(), start=1): the number of the index-th line
line_number_from_zero(i) == i - 1

line_number(i) == i

\* if line_number not in marked_lines: yield line
Yields(i, marked) == ~InSeq(line_number(i), marked)

RECURSIVE FilterFrom(_, _, _)
FilterFrom(lines, i, marked) ==
    IF i > Len(lines) THEN <<>>
    ELSE (IF Yields(i, marked) THEN <<lines[i]>> ELSE <<>>)
         \o FilterFrom(lines, i + 1, marked)

\* the lines the generator yields, or the exception raised by its first line
FilterWith(lines, m) ==
    IF m.exc # "none" THEN [lines |-> <<>>, exc |-> m.exc]
    ELSE [lines |-> FilterFrom(lines, 1, m.marked), exc |-> "none"]

FilterLines(lines) == FilterWith(lines, MarkFrom(lines, 1, TokInit, <<>>))

filter_commented_out_code(text) == FilterLines(readlines(text))

(***************************************************************************)
(* One filtering pass, step by step, followed by a second pass over the    *)
(* joined output of the first.  src_lines are the lines the first text was *)
(* made of; the code only sees `source`.                                   *)
(***************************************************************************)
TerminatedLines ==
    {<<"#", " ", "x", " ", "=", " ", "1", "\n">>,
     <<"#", " ", "n", "o", "t", "e", "\n">>,
     <<"x", " ", "=", " ", "1", " ", "#", " ", "y", " ", "=", " ", "2", "\n">>,
     <<" ", " ", " ", " ", "x", " ", "=", " ", "1", "\n">>,
     <<" ", " ", "x", " ", "=", " ", "1", "\n">>,
     <<"'", "'", "'", "\n">>,
     <<"(", "\n">>,
     <<" ", " ", "#", " ", "y", " ", "=", " ", "2", "\n">>}
UnterminatedLines ==
    {<<"#", " ", "x", " ", "=", " ", "1">>,
     <<"x", " ", "=", " ", "1">>}

\* a comment whose candidate text makes the parse oracle raise MemoryError
DeepLine == <<"#", " ">> \o DeepBody \o <<"\n">>

RECURSIVE Concat(_)
Concat(ls) == IF ls = <<>> THEN <<>> ELSE Head(ls) \o Concat(Tail(ls))

\* texts of up to MaxLines lines; only the last line may lack its terminator
SourceLines ==
    LET T == TerminatedLines \cup {DeepLine}
        full == UNION {[1..n -> T] : n \in 0..MaxLines}
    IN full \cup {Append(ls, u) : ls \in UNION {[1..n -> T] : n \in 0..(MaxLines - 1)},
                                  u \in UnterminatedLines}

NoFail == [kind |-> "none", row |-> 0]

FInit ==
    /\ src_lines \in SourceLines
    /\ source = Concat(src_lines)
    /\ f_pc = "marking"
    /\ lnum = 0
    /\ tk = TokInit
    /\ marked_lines = <<>>
    /\ tok_fail = NoFail
    /\ f_exc = "none"
    /\ index = 0
    /\ output = <<>>
    /\ pass = 1
    /\ first_output = <<>>

\* the tokenizer yields the tokens of the next line and the loop body runs
\* on them
Tok_ReadLine ==
    /\ f_pc = "marking"
    /\ \E lines \in {readlines(source)} :
          /\ lnum < Len(lines)
          /\ \E t \in {TokLine(tk, lines[lnum + 1], lnum + 1)} :
                /\ t.err = "none"
                /\ lnum' = lnum + 1
                /\ tk' = t.st
                /\ \E r \in {LoopBodies(t.tokens, marked_lines)} :
                      /\ marked_lines' = r.marked
                      /\ f_exc' = r.exc
                      /\ f_pc' = IF r.exc # "none" THEN "raised" ELSE "marking"
    /\ UNCHANGED <<src_lines, source, tok_fail, index, output, pass, first_output>>
    /\ UNCHANGED <<cvars, mvars>>

\* the tokenizer raises, in a line or at the end of the text
Tok_Raise ==
    /\ f_pc = "marking"
    /\ \E lines \in {readlines(source)} :
       \E err \in {IF lnum < Len(lines)
                    THEN TokLine(tk, lines[lnum + 1], lnum + 1).err
                    ELSE TokEOF(tk)} :
          /\ err # "none"
          /\ tok_fail' = [kind |-> err, row |-> lnum + 1]
          /\ IF err \in CaughtByAdapter
             THEN f_pc' = "filtering" /\ UNCHANGED f_exc
             ELSE f_pc' = "raised" /\ f_exc' = err
    /\ UNCHANGED <<src_lines, source, lnum, tk, marked_lines, index, output,
                   pass, first_output>>
    /\ UNCHANGED <<cvars, mvars>>

\* the tokenizer reaches the end of the text
Tok_End ==
    /\ f_pc = "marking"
    /\ lnum = Len(readlines(source))
    /\ TokEOF(tk) = "none"
    /\ f_pc' = "filtering"
    /\ UNCHANGED <<src_lines, source, lnum, tk, marked_lines, tok_fail, f_exc,
                   index, output, pass, first_output>>
    /\ UNCHANGED <<cvars, mvars>>

\* one iteration of the loop over enumerate(sio.readlines(), start=1)
Filter_Line ==
    /\ f_pc = "filtering"
    /\ \E lines \in {readlines(source)} :
          /\ index < Len(lines)
          /\ index' = index + 1
          /\ output' = IF Yields(index + 1, marked_lines)
                       THEN Append(output, lines[index + 1])
                       ELSE output
    /\ UNCHANGED <<src_lines, source, f_pc, lnum, tk, marked_lines, tok_fail,
                   f_exc, pass, first_output>>
    /\ UNCHANGED <<cvars, mvars>>

Filter_End ==
    /\ f_pc = "filtering"
    /\ index = Len(readlines(source))
    /\ f_pc' = "done"
    /\ UNCHANGED <<src_lines, source, lnum, tk, marked_lines, tok_fail, f_exc,
                   index, output, pass, first_output>>
    /\ UNCHANGED <<cvars, mvars>>

\* the filter is applied to ''.join(...) of its own output
Refilter ==
    /\ f_pc = "done"
    /\ pass = 1
    /\ pass' = 2
    /\ first_output' = output
    /\ source' = join(output)
    /\ f_pc' = "marking"
    /\ lnum' = 0
    /\ tk' = TokInit
    /\ marked_lines' = <<>>
    /\ tok_fail' = NoFail
    /\ index' = 0
    /\ output' = <<>>
    /\ UNCHANGED <<src_lines, f_exc>>
    /\ UNCHANGED <<cvars, mvars>>

(***************************************************************************)
(* fix_file and main.  A path is the sequence of its components; the file  *)
(* system holds the text of each file, whether it can be opened, and       *)
(* whether its bytes decode under the encoding its header announces.       *)
(***************************************************************************)
\* most names given on the command line
MaxArgs == 2

a_py == <<"a", ".", "p", "y">>
m_py == <<"m", ".", "p", "y">>
l_py == <<"l", ".", "p", "y">>
u_py == <<"u", ".", "p", "y">>
pkg == <<"p", "k", "g">>
x_py == <<"x", ".", "p", "y">>
h_py == <<".", "h", ".", "p", "y">>
r_txt == <<"r", ".", "t", "x", "t">>
y_py == <<"y", ".", "p", "y">>
d_git == <<".", "g", "i", "t">>
d_hg == <<".", "h", "g">>
d_sub == <<"s", "u", "b">>
suffix_py == <<".", "p", "y">>
CleanText == <<"#", " ", "n", "o", "t", "e", "\n", "x", " ", "=", " ", "1", "\n">>
CodeText == <<"#", " ", "x", " ", "=", " ", "1", "\n", "x", " ", "=", " ", "1", "\n">>
DeepText == DeepLine \o <<"x", "\n">>

SubDirs == {d_git, d_hg, d_sub}
TopNames == {<<a_py>>, <<m_py>>, <<l_py>>, <<u_py>>, <<pkg>>}

\* os.path.isdir
isdir(path) == path = <<pkg>> \/ (Len(path) = 2 /\ path[1] = pkg /\ path[2] \in SubDirs)

\* what os.walk yields for a directory: its subdirectories and its files
Listing(path) ==
    IF path = <<pkg>>
    THEN [directories |-> pkg_dirs, children |-> <<x_py, h_py, r_txt>>]
    ELSE [directories |-> <<>>, children |-> <<y_py>>]

\* os.path.join(root, f)
path_join(root, f) == Append(root, f)

\* detect_encoding: opening the file raises IOError, which the function
\* does not catch; content that does not decode makes it fall back
detect_encoding(filename) ==
    IF filename \notin DOMAIN fs \/ ~fs[filename].readable
    THEN [encoding |-> "none", exc |-> "IOError"]
    ELSE IF fs[filename].decodable
    THEN [encoding |-> "utf-8", exc |-> "none"]
    ELSE [encoding |-> "latin-1", exc |-> "none"]

\* fix_file up to the comparison: the text read, the filtered text and the
\* exception that leaves the function
Filtered(src, f) ==
    [exc |-> f.exc, source |-> src, filtered_source |-> join(f.lines)]

fix_file(filename) ==
    IF detect_encoding(filename).exc # "none"
    THEN [exc |-> detect_encoding(filename).exc, source |-> <<>>,
          filtered_source |-> <<>>]
    ELSE Filtered(fs[filename].text,
                  filter_commented_out_code(fs[filename].text))

\* difflib.unified_diff(before lines, after lines, 'before/' + filename,
\* 'after/' + filename), joined
unified_diff(a, b, filename) ==
    [fromfile |-> <<"before/", filename>>, tofile |-> <<"after/", filename>>,
     a |-> a, b |-> b]

RemoveFirst(s, x) ==
    LET i == CHOOSE k \in 1..Len(s) : s[k] = x /\ \A j \in 1..(k - 1) : s[j] # x
    IN SubSeq(s, 1, i - 1) \o SubSeq(s, i + 1, Len(s))

\* for d in directories: if d.startswith('.'): directories.remove(d)
\* the iterator's position moves on after each element, removed or not
RECURSIVE PruneHidden(_, _)
PruneHidden(directories, i) ==
    IF i > Len(directories) THEN directories
    ELSE IF startswith(directories[i], <<".">>)
    THEN PruneHidden(RemoveFirst(directories, directories[i]), i + 1)
    ELSE PruneHidden(directories, i + 1)

\* [os.path.join(root, f) for f in children
\*  if f.endswith('.py') and not f.startswith('.')]
RECURSIVE Collect(_, _)
Collect(root, children) ==
    IF children = <<>> THEN <<>>
    ELSE (IF endswith(Head(children), suffix_py)
             /\ ~startswith(Head(children), <<".">>)
          THEN <<path_join(root, Head(children))>> ELSE <<>>)
         \o Collect(root, Tail(children))

RECURSIVE PathsOf(_, _)
PathsOf(root, ds) ==
    IF ds = <<>> THEN <<>> ELSE <<path_join(root, Head(ds))>> \o PathsOf(root, Tail(ds))

\* sequences without repetition over a set, of length at most n
Arrangements(S, n) ==
    {t \in UNION {[1..k -> S] : k \in 0..n} :
        \A i, j \in 1..Len(t) : t[i] = t[j] => i = j}

File(text, readable, decodable) ==
    [text |-> text, readable |-> readable, decodable |-> decodable]

NoCall == [name |-> <<>>, outcome |-> "none", source |-> <<>>,
           filtered_source |-> <<>>]

MInit ==
    /\ in_place \in BOOLEAN
    /\ recursive \in BOOLEAN
    /\ pkg_dirs \in Arrangements(SubDirs, Cardinality(SubDirs))
    /\ \E t \in {CleanText, CodeText, DeepText} :
          fs = (<<a_py>> :> File(t, TRUE, TRUE))
               @@ (<<l_py>> :> File(CodeText, FALSE, TRUE))
               @@ (<<u_py>> :> File(CodeText, TRUE, FALSE))
               @@ (<<pkg, x_py>> :> File(CodeText, TRUE, TRUE))
               @@ (<<pkg, h_py>> :> File(CodeText, TRUE, TRUE))
               @@ (<<pkg, r_txt>> :> File(CodeText, TRUE, TRUE))
               @@ [p \in {<<pkg, d, y_py>> : d \in SubDirs} |->
                      File(CodeText, TRUE, TRUE)]
    \* filenames = list(set(args.files)): no repetition, any order
    /\ filenames \in Arrangements(TopNames, MaxArgs) \ {<<>>}
    /\ m_pc = "loop"
    /\ walk = <<>>
    /\ stdout = <<>>
    /\ stderr = <<>>
    /\ written = {}
    /\ passed = <<>>
    /\ last = NoCall

IsWalked(name) == recursive /\ isdir(name)

\* name = filenames.pop(0); fix_file(name, ...) returns
Main_Fix ==
    /\ m_pc = "loop"
    /\ filenames # <<>>
    /\ \E name \in {Head(filenames)} : \E r \in {fix_file(name)} :
          /\ ~IsWalked(name)
          /\ r.exc = "none"
          /\ filenames' = Tail(filenames)
          /\ passed' = Append(passed, name)
          /\ IF r.source # r.filtered_source
             THEN IF in_place
                  THEN /\ fs' = [fs EXCEPT ![name].text = r.filtered_source]
                       /\ written' = written \cup {name}
                       /\ UNCHANGED stdout
                       /\ last' = [name |-> name, outcome |-> "rewritten",
                                   source |-> r.source,
                                   filtered_source |-> r.filtered_source]
                  ELSE /\ stdout' = Append(stdout,
                                       unified_diff(readlines(r.source),
                                                    readlines(r.filtered_source),
                                                    name))
                       /\ UNCHANGED <<fs, written>>
                       /\ last' = [name |-> name, outcome |-> "diff",
                                   source |-> r.source,
                                   filtered_source |-> r.filtered_source]
             ELSE /\ UNCHANGED <<fs, written, stdout>>
                  /\ last' = [name |-> name, outcome |-> "unchanged",
                              source |-> r.source,
                              filtered_source |-> r.filtered_source]
    /\ UNCHANGED <<in_place, recursive, pkg_dirs, m_pc, walk, stderr>>
    /\ UNCHANGED <<cvars, fvars>>

\* fix_file raises IOError: except IOError prints it to standard_error
Main_FixIOError ==
    /\ m_pc = "loop"
    /\ filenames # <<>>
    /\ \E name \in {Head(filenames)} : \E r \in {fix_file(name)} :
          /\ ~IsWalked(name)
          /\ r.exc = "IOError"
          /\ filenames' = Tail(filenames)
          /\ passed' = Append(passed, name)
          /\ stderr' = Append(stderr, name)
          /\ last' = [name |-> name, outcome |-> "IOError", source |-> <<>>,
                      filtered_source |-> <<>>]
    /\ UNCHANGED <<in_place, recursive, fs, pkg_dirs, m_pc, walk, stdout, written>>
    /\ UNCHANGED <<cvars, fvars>>

\* fix_file raises anything else: nothing in main catches it
Main_FixRaises ==
    /\ m_pc = "loop"
    /\ filenames # <<>>
    /\ \E name \in {Head(filenames)} : \E r \in {fix_file(name)} :
          /\ ~IsWalked(name)
          /\ r.exc \notin {"none", "IOError"}
          /\ filenames' = Tail(filenames)
          /\ passed' = Append(passed, name)
          /\ m_pc' = "aborted"
          /\ last' = [name |-> name, outcome |-> r.exc, source |-> r.source,
                      filtered_source |-> <<>>]
    /\ UNCHANGED <<in_place, recursive, fs, pkg_dirs, walk, stdout, stderr, written>>
    /\ UNCHANGED <<cvars, fvars>>

\* args.recursive and os.path.isdir(name): os.walk(name) starts
Main_WalkStart ==
    /\ m_pc = "loop"
    /\ filenames # <<>>
    /\ IsWalked(Head(filenames))
    /\ filenames' = Tail(filenames)
    /\ walk' = <<Head(filenames)>>
    /\ m_pc' = "walking"
    /\ UNCHANGED <<in_place, recursive, fs, pkg_dirs, stdout, stderr, written,
                   passed, last>>
    /\ UNCHANGED <<cvars, fvars>>

\* one iteration of the for loop over os.walk(name): the files of root are
\* added, directories is pruned in place, and os.walk goes on into what is
\* left of it
Main_WalkStep ==
    /\ m_pc = "walking"
    /\ walk # <<>>
    /\ \E root \in {Head(walk)} : \E l \in {Listing(root)} :
          /\ filenames' = filenames \o Collect(root, l.children)
          /\ walk' = PathsOf(root, PruneHidden(l.directories, 1)) \o Tail(walk)
    /\ UNCHANGED <<in_place, recursive, fs, pkg_dirs, m_pc, stdout, stderr,
                   written, passed, last>>
    /\ UNCHANGED <<cvars, fvars>>

\* os.walk is exhausted
Main_WalkEnd ==
    /\ m_pc = "walking"
    /\ walk = <<>>
    /\ m_pc' = "loop"
    /\ UNCHANGED <<in_place, recursive, fs, pkg_dirs, filenames, walk, stdout,
                   stderr, written, passed, last>>
    /\ UNCHANGED <<cvars, fvars>>

\* while filenames: the list is empty
Main_Return ==
    /\ m_pc = "loop"
    /\ filenames = <<>>
    /\ m_pc' = "done"
    /\ UNCHANGED <<in_place, recursive, fs, pkg_dirs, filenames, walk, stdout,
                   stderr, written, passed, last>>
    /\ UNCHANGED <<cvars, fvars>>

(***************************************************************************)
(* The specifications.                                                     *)
(***************************************************************************)
CIdle ==
    /\ c_line = <<>>
    /\ c_text = <<>>
    /\ c_bare = <<>>
    /\ c_pc = "idle"
    /\ c_exc = "none"

FIdle ==
    /\ src_lines = <<>>
    /\ source = <<>>
    /\ f_pc = "idle"
    /\ lnum = 0
    /\ tk = TokInit
    /\ marked_lines = <<>>
    /\ tok_fail = NoFail
    /\ f_exc = "none"
    /\ index = 0
    /\ output = <<>>
    /\ pass = 1
    /\ first_output = <<>>

MIdle ==
    /\ in_place = FALSE
    /\ recursive = FALSE
    /\ fs = <<>>
    /\ pkg_dirs = <<>>
    /\ filenames = <<>>
    /\ m_pc = "idle"
    /\ walk = <<>>
    /\ stdout = <<>>
    /\ stderr = <<>>
    /\ written = {}
    /\ passed = <<>>
    /\ last = NoCall

\* a filtering pass over a text, and a second pass over its output
Init == FInit /\ CIdle /\ MIdle

Next ==
    \/ Tok_ReadLine
    \/ Tok_Raise
    \/ Tok_End
    \/ Filter_Line
    \/ Filter_End
    \/ Refilter

Spec == Init /\ [][Next]_vars

\* one call of comment_contains_code
InitClassify == CInit /\ FIdle /\ MIdle

NextClassify ==
    \/ CC_Strip
    \/ CC_Gate
    \/ CC_Endings
    \/ CC_Keywords
    \/ CC_Beginnings
    \/ CC_Compile

SpecClassify == InitClassify /\ [][NextClassify]_vars

\* one run of main
InitMain == MInit /\ CIdle /\ FIdle

NextMain ==
    \/ Main_Fix
    \/ Main_FixIOError
    \/ Main_FixRaises
    \/ Main_WalkStart
    \/ Main_WalkStep
    \/ Main_WalkEnd
    \/ Main_Return

SpecMain == InitMain /\ [][NextMain]_vars

(***************************************************************************)
(* Properties.                                                             *)
(***************************************************************************)
\* the lines of the text the current pass filters
InputLines == IF pass = 1 THEN src_lines ELSE first_output

MarkedSet == {marked_lines[i] : i \in 1..Len(marked_lines)}

RECURSIVE KeepUnmarked(_, _, _)
KeepUnmarked(ls, k, marked) ==
    IF k > Len(ls) THEN <<>>
    ELSE IF k \in marked THEN KeepUnmarked(ls, k + 1, marked)
    ELSE <<ls[k]>> \o KeepUnmarked(ls, k + 1, marked)

\* a line that is a comment and nothing else
PurelyComment(l) ==
    \E i \in 1..Len(l) : l[i] = "#" /\ \A j \in 1..(i - 1) : l[j] \in Whitespace

NotPurelyComment(l) == ~PurelyComment(l)

\* C1: when the filter has run to its end, its output is the input lines
\* whose 1-based number is not marked, in order and each unchanged with its
\* terminator, and it has as many lines as the input less the marked set.
C1_OutputIsUnmarkedLines ==
    f_pc = "done" =>
        /\ output = KeepUnmarked(InputLines, 1, MarkedSet)
        /\ Len(output) = Len(InputLines) - Cardinality(MarkedSet)

C1_Witness ==
    /\ f_pc = "done"
    /\ pass = 1
    /\ Len(src_lines) = 3
    /\ Cardinality(MarkedSet) = 1
    /\ Len(output) = 2
    /\ Last(output) \in UnterminatedLines

C5_TokenizerFailureRecovered ==
    tok_fail.kind # "none" =>
        /\ f_pc # "raised"
        /\ f_exc = "none"
        /\ \A k \in MarkedSet : k < tok_fail.row
        /\ f_pc = "done" =>
              /\ output = KeepUnmarked(InputLines, 1, MarkedSet)
              /\ \A k \in tok_fail.row..Len(InputLines) :
                    output[k - Cardinality(MarkedSet)] = InputLines[k]

C5_Witness ==
    /\ f_pc = "done"
    /\ pass = 1
    /\ tok_fail.kind = "IndentationError"
    /\ tok_fail.row <= Len(src_lines)
    /\ MarkedSet # {}

\* C4: when no comment of a file is marked, fix_file leaves the file, the
\* set of rewritten files and standard output as they are, and its filtered
\* text is the source; the file is rewritten or a diff written only when the
\* filtered text differs from the source.
NoneMarked(filename) ==
    /\ detect_encoding(filename).exc = "none"
    /\ commented_out_code_line_numbers(fs[filename].text).marked = <<>>

C4_NoOpWhenNothingMarked ==
    /\ [][(/\ m_pc = "loop"
           /\ filenames # <<>>
           /\ ~IsWalked(Head(filenames))
           /\ NoneMarked(Head(filenames)))
          => (/\ fs' = fs
              /\ stdout' = stdout
              /\ written' = written
              /\ (last'.outcome = "unchanged" =>
                     last'.filtered_source = last'.source))]_vars
    /\ [][(fs' # fs \/ stdout' # stdout \/ written' # written)
          => last'.filtered_source # last'.source]_vars

C4_Witness ==
    /\ last.outcome = "unchanged"
    /\ last.source = CleanText
    /\ last.filtered_source = CleanText
    /\ stdout = <<>>
    /\ written = {}

Returned == c_pc \in {"return17", "return27", "return32", "return36",
                      "return43", "return45"}

\* C6: whenever the parse oracle raises on the candidate fragment, the
\* classifier returns False and the exception does not leave it.
C6_OracleErrorsRecovered ==
    (c_pc \in {"return43", "return45", "raised"} /\ compile(c_text) # "ok")
        => c_pc = "return45"

\* C7: once a file has failed and been reported to the error stream, the run
\* is never aborted: the files still on the worklist are processed and the
\* loop ends with the list empty.
C7_FailureNeverAborts ==
    stderr # <<>> => m_pc # "aborted"

HiddenName(name) == name # <<>> /\ Head(name) = "."

UnderHiddenDirectory(path) ==
    \E i \in 1..(Len(path) - 1) : HiddenName(path[i])

\* C8: the walk adds only files ending in '.py' whose name does not start
\* with '.', and never one that lies under a hidden directory.
C8_NoHiddenDirectoryWalked ==
    \A i \in 1..Len(filenames) :
        Len(filenames[i]) > 1 =>
            /\ endswith(Last(filenames[i]), suffix_py)
            /\ ~HiddenName(Last(filenames[i]))
            /\ ~UnderHiddenDirectory(filenames[i])

WholeWordPrefix(text, word) ==
    /\ startswith(text, word)
    /\ Len(text) > Len(word) => text[Len(word) + 1] \notin WordChars

\* C9: the text handed to the syntactic validation is the bare text, or the
\* bare text less one leading whole-word `print` or `return` and the
\* whitespace after it: at most one keyword occurrence is removed.
C9_SingleKeywordStripped ==
    c_pc = "line41" =>
        \/ c_text = c_bare
        \/ \E word \in {kw_print, kw_return} :
              /\ WholeWordPrefix(c_bare, word)
              /\ c_text = lstrip(DropFirst(c_bare, Len(word)))

ExactBlocks == {kw_else \o <<":">>, kw_try \o <<":">>, kw_finally \o <<":">>}

\* C10 as stated: the bare-keyword-block shortcut returns True exactly for
\* the bare texts `else:`, `try:` and `finally:`.
C10_ShortcutOnlyExactText ==
    (Returned \/ c_pc = "raised") =>
        (c_pc = "return36" <=> c_bare \in ExactBlocks)

\* a block keyword, any whitespace, a colon
KeywordThenColon(text) ==
    \E word \in BlockKeywords :
        /\ startswith(text, word)
        /\ Len(text) > Len(word)
        /\ Last(text) = ":"
        /\ \A i \in (Len(word) + 1)..(Len(text) - 1) : text[i] \in Whitespace

\* C10, amended: the shortcut returns True exactly for the bare texts that
\* are `else`, `try` or `finally`, optional whitespace, and a colon.
C10_ShortcutKeywordThenColon ==
    (Returned \/ c_pc = "raised") =>
        (c_pc = "return36" <=> KeywordThenColon(c_bare))

C10_Witness ==
    /\ c_pc = "return36"
    /\ c_bare = kw_else \o <<" ", ":">>

====
